---- MODULE Spec2Model ----
(***************************************************************************)
(* Serial Studio: the network data source (IO::DataSources::Network) and   *)
(* the CSV frame writer (CSV::Export), as state machines driven by the Qt  *)
(* event loop.  Every handler runs to completion on the one GUI thread;    *)
(* asynchrony is the later delivery of DNS results and socket signals.     *)
(***************************************************************************)
EXTENDS Integers, Sequences, FiniteSets, TLC

(* ------------------------------ bounds --------------------------------- *)

\* DNS lookups that may be outstanding at the same time
MaxPending == 2

\* socket errorOccurred signals delivered in one run
MaxEvents == 2

\* frames registerFrame accepts in one run
MaxFrames == 2

\* datasets of the project (and so the largest field count)
MaxDatasets == 2

(* --------------------------- Network: values ---------------------------- *)

\* Network.h, defaultTcpPort() / defaultUdpLocalPort() / defaultUdpRemotePort()
\* and defaultAddress(): fixed fallback values
defaultTcpPort == 23

defaultUdpLocalPort == 0

defaultUdpRemotePort == 53

defaultAddress == "127.0.0.1"

\* quint16
PortModulus == 65536

\* strings handed to setRemoteAddress by the UI
LiteralAddresses == {"10.0.0.1", "::1"}

HostNames == {"", "hostA", "hostB"}

Addresses == LiteralAddresses \cup HostNames

\* integers handed to the port setters by the UI (truncated to quint16)
PortInputs == {0, 7777, 65536}

UdpPortInputs == {0, 53}

SocketTypes == {"TcpSocket", "UdpSocket", "UnknownSocketType"}

\* QHostAddress(address).isNull(): the string is no literal IPv4/IPv6 address
QHostAddressIsNull(address) == address \notin LiteralAddresses

ToQuint16(port) == port % PortModulus

NoLookups == [h \in HostNames |-> 0]

Outstanding(l) == l[""] + l["hostA"] + l["hostB"]

TcpIdle == [state |-> "UnconnectedState", host |-> "", port |-> 0]

UdpIdle == [state |-> "UnconnectedState", port |-> 0, group |-> "none"]

(* ----------------------------- CSV: values ------------------------------ *)

\* IO::Manager::separatorSequence(): the separator between the fields of a frame
separatorSequence == <<",">>

\* frame payloads the device sends (QByteArray, one character per element)
Payloads == {<<"x">>, <<"x", ",", "x">>, <<",", ",">>}

\* JSON::Editor: the dataset indexes of the project, in group and dataset order.
\* The writer only compares indexes with each other, so a new index is always
\* given the next number: <<1, 1, 2>> stands for <<7, 7, 3>> as well
Schemas ==
    {schema \in UNION {[1..n -> 1..MaxDatasets] : n \in 0..MaxDatasets} :
        \A i \in 1..Len(schema) :
            schema[i] = 1 \/ \E j \in 1..(i - 1) : schema[j] >= schema[i] - 1}

\* what the text stream is given, piece by piece
Comma == [k |-> ","]

Newline == [k |-> "newline"]

RxDateTimeTitle == [k |-> "RX Date/Time"]

\* frame.rxDateTime.toString(...)
RxDateTime(t) == [k |-> "rxDateTime", t |-> t]

\* titles.at(i) << "(field " << i + 1 << ")": the title of dataset number
\* `dataset` of the schema, as column `n`
Title(dataset, n) == [k |-> "title", dataset |-> dataset, n |-> n]

Char(c) == [k |-> "char", c |-> c]

VARIABLES
    m_fieldCount,     \* int
    m_exportEnabled,  \* bool
    m_csvFile,        \* QFile: whether it is open
    m_frames,         \* QVector<RawFrame>: data and rxDateTime
    disk,             \* the text of every file created so far, in creation order
                      \* (the last one is m_csvFile while that is open)
    connected,        \* IO::Manager::connected()
    received,         \* the payloads registerFrame accepted, in order; a frame's
                      \* rxDateTime is its place in this list
    csvLast           \* the last CSV handler that ran: its name, the state it
                      \* found, and the files it tried to create, the alerts it
                      \* raised and the rows it put in a file

csvVars == <<m_fieldCount, m_exportEnabled, m_csvFile, m_frames, disk, connected,
             received, csvLast>>

VARIABLES
    m_address,        \* QString m_address
    m_tcpPort,        \* quint16
    m_udpLocalPort,   \* quint16
    m_udpRemotePort,  \* quint16
    m_socketType,     \* QAbstractSocket::SocketType
    m_udpMulticast,   \* bool
    m_hostExists,     \* bool
    m_lookupActive,   \* bool
    lookups,          \* QHostInfo lookups issued and not yet called back, per host
    resolved,         \* host names one of whose lookups called back with an address
    m_tcpSocket,      \* QTcpSocket: state and peer
    m_udpSocket,      \* QUdpSocket: state, bound port, joined group
    managerDisconnects, \* calls of IO::Manager::disconnectDevice made by Network
    alerts,           \* message boxes shown by Network
    netLast           \* the last socket handler that ran: its name, what set it
                      \* off and what it returned or showed

netVars == <<m_address, m_tcpPort, m_udpLocalPort, m_udpRemotePort, m_socketType,
             m_udpMulticast, m_hostExists, m_lookupActive, lookups, resolved,
             m_tcpSocket, m_udpSocket, managerDisconnects, alerts, netLast>>

vars == <<netVars, csvVars>>

(* --------------------------- Network: getters --------------------------- *)

lookupActive == m_lookupActive

\* a variant that asks for the port of the selected transport
configurationOk_selectedPort ==
    IF m_socketType = "UdpSocket"
       THEN m_udpLocalPort > 0 /\ m_hostExists
       ELSE m_tcpPort > 0 /\ m_hostExists

configurationOk == m_tcpPort > 0 /\ m_hostExists

(* -------------------------- Network: handlers --------------------------- *)

\* Network::lookup: the flag is raised and one more lookup is in flight
\* (the host names of HostNames hold no white space: simplified() keeps them)
lookup(host) ==
    /\ m_lookupActive' = TRUE
    /\ lookups' = [lookups EXCEPT ![host] = @ + 1]

\* a variant that raises the lookup flag before it looks at the address
setRemoteAddress_flagFirst(address) ==
    /\ QHostAddressIsNull(address) => Outstanding(lookups) < MaxPending
    /\ m_lookupActive' = TRUE
    /\ IF QHostAddressIsNull(address)
          THEN /\ m_hostExists' = FALSE
               /\ lookups' = [lookups EXCEPT ![address] = @ + 1]
          ELSE /\ m_hostExists' = TRUE
               /\ UNCHANGED lookups
    /\ m_address' = address
    /\ UNCHANGED <<csvVars, m_tcpPort, m_udpLocalPort, m_udpRemotePort, m_socketType,
                   m_udpMulticast, resolved, m_tcpSocket, m_udpSocket,
                   managerDisconnects, alerts, netLast>>

setRemoteAddress(address) ==
    /\ QHostAddressIsNull(address) => Outstanding(lookups) < MaxPending
    /\ IF QHostAddressIsNull(address)
          THEN /\ m_hostExists' = FALSE
               /\ lookup(address)
          ELSE /\ m_hostExists' = TRUE
               /\ UNCHANGED <<m_lookupActive, lookups>>
    /\ m_address' = address
    /\ UNCHANGED <<csvVars, m_tcpPort, m_udpLocalPort, m_udpRemotePort, m_socketType,
                   m_udpMulticast, resolved, m_tcpSocket, m_udpSocket,
                   managerDisconnects, alerts,
                   netLast>>

setTcpPort(port) ==
    /\ m_tcpPort' = ToQuint16(port)
    /\ UNCHANGED <<csvVars, m_address, m_udpLocalPort, m_udpRemotePort, m_socketType,
                   m_udpMulticast, m_hostExists, m_lookupActive, lookups, resolved,
                   m_tcpSocket, m_udpSocket, managerDisconnects, alerts,
                   netLast>>

setUdpLocalPort(port) ==
    /\ m_udpLocalPort' = ToQuint16(port)
    /\ UNCHANGED <<csvVars, m_address, m_tcpPort, m_udpRemotePort, m_socketType,
                   m_udpMulticast, m_hostExists, m_lookupActive, lookups, resolved,
                   m_tcpSocket, m_udpSocket, managerDisconnects, alerts,
                   netLast>>

setUdpRemotePort(port) ==
    /\ m_udpRemotePort' = ToQuint16(port)
    /\ UNCHANGED <<csvVars, m_address, m_tcpPort, m_udpLocalPort, m_socketType,
                   m_udpMulticast, m_hostExists, m_lookupActive, lookups, resolved,
                   m_tcpSocket, m_udpSocket, managerDisconnects, alerts,
                   netLast>>

setUdpMulticast(enabled) ==
    /\ m_udpMulticast' = enabled
    /\ UNCHANGED <<csvVars, m_address, m_tcpPort, m_udpLocalPort, m_udpRemotePort,
                   m_socketType, m_hostExists, m_lookupActive, lookups, resolved,
                   m_tcpSocket, m_udpSocket, managerDisconnects, alerts,
                   netLast>>

setSocketType(type) ==
    /\ m_socketType' = type
    /\ UNCHANGED <<csvVars, m_address, m_tcpPort, m_udpLocalPort, m_udpRemotePort,
                   m_udpMulticast, m_hostExists, m_lookupActive, lookups, resolved,
                   m_tcpSocket, m_udpSocket, managerDisconnects, alerts,
                   netLast>>

\* The event loop delivers the result of one outstanding lookup of `host`:
\* `noError` is info.error() == QHostInfo::NoError, `count` is
\* info.addresses().count().  QHostInfo answers an empty name with HostNotFound.
lookupFinished(host, noError, count) ==
    /\ lookups[host] > 0
    /\ host = "" => ~noError
    /\ ~noError => count = 0
    /\ lookups' = [lookups EXCEPT ![host] = @ - 1]
    /\ m_lookupActive' = FALSE
    /\ IF noError /\ count >= 1
          THEN /\ m_hostExists' = TRUE
               /\ resolved' = resolved \cup {host}
          ELSE UNCHANGED <<m_hostExists, resolved>>
    /\ UNCHANGED <<csvVars, m_address, m_tcpPort, m_udpLocalPort, m_udpRemotePort,
                   m_socketType, m_udpMulticast, m_tcpSocket, m_udpSocket,
                   managerDisconnects, alerts,
                   netLast>>

\* a variant that also puts the transport kind back to TCP
disconnectDevice_resetType ==
    /\ m_tcpSocket' = TcpIdle
    /\ m_udpSocket' = UdpIdle
    /\ m_socketType' = "TcpSocket"
    /\ netLast' = [op |-> "disconnectDevice", arg |-> "", ret |-> "void"]
    /\ UNCHANGED <<csvVars, m_address, m_tcpPort, m_udpLocalPort, m_udpRemotePort,
                   m_udpMulticast, m_hostExists, m_lookupActive,
                   lookups, resolved, managerDisconnects, alerts>>

\* QAbstractSocket::abort() then disconnectFromHost() on both sockets: each one
\* is back in UnconnectedState whatever state it was in
disconnectDevice ==
    /\ m_tcpSocket' = TcpIdle
    /\ m_udpSocket' = UdpIdle
    /\ netLast' = [op |-> "disconnectDevice", arg |-> "", ret |-> "void"]
    /\ UNCHANGED <<csvVars, m_address, m_tcpPort, m_udpLocalPort, m_udpRemotePort,
                   m_socketType, m_udpMulticast, m_hostExists, m_lookupActive,
                   lookups, resolved, managerDisconnects, alerts>>

\* hostAddr of openNetworkPort
hostAddr == IF m_address = "" THEN defaultAddress ELSE m_address

\* m_udpSocket after bind() and, when requested, joinMulticastGroup():
\* `bindOk` is what the operating system answers to bind, `joinOk` what it
\* answers to the join; a join needs a bound socket and a non-null address
UdpOpened(bindOk, joinOk) ==
    [state |-> IF bindOk THEN "BoundState" ELSE "UnconnectedState",
     port  |-> IF bindOk THEN m_udpLocalPort ELSE 0,
     group |-> IF m_udpMulticast /\ bindOk /\ joinOk /\ ~QHostAddressIsNull(m_address)
                  THEN m_address ELSE "none"]

\* the pointer openNetworkPort returns
OpenedSocket ==
    IF m_socketType = "TcpSocket" THEN "m_tcpSocket"
    ELSE IF m_socketType = "UdpSocket" THEN "m_udpSocket"
    ELSE "Q_NULLPTR"

\* what openNetworkPort met: the transport it started, or how the start failed
OpenOutcome(bindOk, joinOk) ==
    IF m_socketType = "TcpSocket" THEN "tcp"
    ELSE IF m_socketType # "UdpSocket" THEN "unknownType"
    ELSE IF ~bindOk THEN "bindFailed"
    ELSE IF m_udpMulticast /\ UdpOpened(bindOk, joinOk).group = "none" THEN "joinFailed"
    ELSE "udp"

\* a variant without the leading disconnectDevice()
openNetworkPort_noDisconnect(bindOk, joinOk) ==
    /\ IF m_socketType = "TcpSocket"
          THEN /\ m_tcpSocket' = [state |-> "ConnectingState", host |-> hostAddr,
                                  port |-> m_tcpPort]
               /\ UNCHANGED m_udpSocket
          ELSE IF m_socketType = "UdpSocket"
          THEN /\ UNCHANGED m_tcpSocket
               /\ m_udpSocket' = UdpOpened(bindOk, joinOk)
          ELSE UNCHANGED <<m_tcpSocket, m_udpSocket>>
    /\ netLast' = [op |-> "openNetworkPort", arg |-> OpenOutcome(bindOk, joinOk),
                   ret |-> OpenedSocket]
    /\ UNCHANGED <<csvVars, m_address, m_tcpPort, m_udpLocalPort, m_udpRemotePort,
                   m_socketType, m_udpMulticast, m_hostExists, m_lookupActive,
                   lookups, resolved, managerDisconnects, alerts>>

openNetworkPort(bindOk, joinOk) ==
    /\ IF m_socketType = "TcpSocket"
          THEN /\ m_tcpSocket' = [state |-> "ConnectingState", host |-> hostAddr,
                                  port |-> m_tcpPort]
               /\ m_udpSocket' = UdpIdle
          ELSE IF m_socketType = "UdpSocket"
          THEN /\ m_tcpSocket' = TcpIdle
               /\ m_udpSocket' = UdpOpened(bindOk, joinOk)
          ELSE /\ m_tcpSocket' = TcpIdle
               /\ m_udpSocket' = UdpIdle
    /\ netLast' = [op |-> "openNetworkPort", arg |-> OpenOutcome(bindOk, joinOk),
                   ret |-> OpenedSocket]
    /\ UNCHANGED <<csvVars, m_address, m_tcpPort, m_udpLocalPort, m_udpRemotePort,
                   m_socketType, m_udpMulticast, m_hostExists, m_lookupActive,
                   lookups, resolved, managerDisconnects, alerts>>

\* The TCP handshake completes (QAbstractSocket goes to ConnectedState)
tcpConnected ==
    /\ m_tcpSocket.state = "ConnectingState"
    /\ m_tcpSocket' = [m_tcpSocket EXCEPT !.state = "ConnectedState"]
    /\ UNCHANGED <<csvVars, m_address, m_tcpPort, m_udpLocalPort, m_udpRemotePort,
                   m_socketType, m_udpMulticast, m_hostExists, m_lookupActive,
                   lookups, resolved, m_udpSocket, managerDisconnects, alerts,
                   netLast>>

\* the text onErrorOccurred puts in the message box
ErrorText(sender) ==
    IF m_socketType = "TcpSocket" THEN "m_tcpSocket.errorString"
    ELSE IF m_socketType = "UdpSocket" THEN "m_udpSocket.errorString"
    ELSE "QString::number(socketError)"

\* the sockets that are in use and so can raise errorOccurred
ActiveSockets ==
    (IF m_tcpSocket.state # "UnconnectedState" THEN {"m_tcpSocket"} ELSE {})
    \cup (IF m_udpSocket.state # "UnconnectedState" THEN {"m_udpSocket"} ELSE {})

\* IO::Manager::disconnectDevice(), called by onErrorOccurred: the full
\* disconnect of the device, which closes both sockets of this data source
ManagerDisconnectDevice ==
    /\ managerDisconnects' = managerDisconnects + 1
    /\ m_tcpSocket' = TcpIdle
    /\ m_udpSocket' = UdpIdle

\* a variant that handles only the errors of the selected transport's socket
onErrorOccurred_selectedOnly(sender) ==
    /\ sender \in ActiveSockets
    /\ alerts < MaxEvents
    /\ IF \/ m_socketType = "TcpSocket" /\ sender = "m_tcpSocket"
          \/ m_socketType = "UdpSocket" /\ sender = "m_udpSocket"
          THEN /\ ManagerDisconnectDevice
               /\ alerts' = alerts + 1
          ELSE UNCHANGED <<managerDisconnects, m_tcpSocket, m_udpSocket, alerts>>
    /\ netLast' = [op |-> "onErrorOccurred", arg |-> sender, ret |-> ErrorText(sender)]
    /\ UNCHANGED <<csvVars, m_address, m_tcpPort, m_udpLocalPort, m_udpRemotePort,
                   m_socketType, m_udpMulticast, m_hostExists, m_lookupActive,
                   lookups, resolved>>

\* errorOccurred of `sender` (either socket is connected to the slot): the
\* device manager is told to disconnect and one message box is shown
onErrorOccurred(sender) ==
    /\ sender \in ActiveSockets
    /\ alerts < MaxEvents
    /\ ManagerDisconnectDevice
    /\ alerts' = alerts + 1
    /\ netLast' = [op |-> "onErrorOccurred", arg |-> sender, ret |-> ErrorText(sender)]
    /\ UNCHANGED <<csvVars, m_address, m_tcpPort, m_udpLocalPort, m_udpRemotePort,
                   m_socketType, m_udpMulticast, m_hostExists, m_lookupActive,
                   lookups, resolved>>

(* ---------------------------- CSV: helpers ------------------------------ *)

isOpen == m_csvFile.open

exportEnabled == m_exportEnabled

Min(S) == CHOOSE x \in S : \A y \in S : x <= y

\* QString::split(sep) with a non-empty separator: empty parts are kept
RECURSIVE split(_, _)
split(s, sep) ==
    LET hits == {i \in 1..(Len(s) - Len(sep) + 1) :
                    SubSeq(s, i, i + Len(sep) - 1) = sep}
    IN  IF hits = {} THEN <<s>>
        ELSE <<SubSeq(s, 1, Min(hits) - 1)>>
                 \o split(SubSeq(s, Min(hits) + Len(sep), Len(s)), sep)

\* createCsvFile, the loop over groups and datasets: the places in the schema
\* of the datasets whose index no earlier dataset has, in order
RECURSIVE DistinctDatasets(_, _)
DistinctDatasets(schema, i) ==
    IF i > Len(schema) THEN <<>>
    ELSE IF \E j \in 1..(i - 1) : schema[j] = schema[i]
         THEN DistinctDatasets(schema, i + 1)
         ELSE <<i>> \o DistinctDatasets(schema, i + 1)

\* createCsvFile, "Add table titles": the header text for these datasets
RECURSIVE TableTitles(_, _)
TableTitles(titles, i) ==
    IF i > Len(titles) THEN <<>>
    ELSE <<Title(titles[i], i)>>
             \o (IF i < Len(titles) THEN <<Comma>> ELSE <<Newline>>)
             \o TableTitles(titles, i + 1)

HeaderText(schema) ==
    <<RxDateTimeTitle, Comma>> \o TableTitles(DistinctDatasets(schema, 1), 1)

Chars(field) == [i \in 1..Len(field) |-> Char(field[i])]

Commas(n) == [i \in 1..n |-> Comma]

\* writeValues, "Write frame data": the text of fields j.. of one frame
RECURSIVE FrameText(_, _, _)
FrameText(fields, j, fieldCount) ==
    IF j > Len(fields) THEN <<>>
    ELSE Chars(fields[j])
             \o (IF j < Len(fields)
                    THEN <<Comma>>
                    ELSE LET d == fieldCount - Len(fields)
                         IN  (IF d > 0 THEN Commas(d - 1) ELSE <<>>) \o <<Newline>>)
             \o FrameText(fields, j + 1, fieldCount)

\* The writer: the file state a handler works on, and what it did so far
Writer == [open |-> isOpen, fieldCount |-> m_fieldCount, disk |-> disk,
           attempts |-> 0, alerts |-> 0, rows |-> 0]

\* m_textStream << text: the text reaches the open file; a stream without a
\* device drops it
Stream(w, text) ==
    IF w.open THEN [w EXCEPT !.disk[Len(w.disk)] = @ \o text] ELSE w

\* createCsvFile: `ok` is whether QFile::open succeeds.  On failure one message
\* box is shown and closeFile() finds no open file; on success the field count
\* is taken from the schema and the header is written
createCsvFile(w, frame, ok, schema) ==
    IF ~ok
       THEN [w EXCEPT !.attempts = @ + 1, !.alerts = @ + 1]
       ELSE [w EXCEPT !.attempts = @ + 1,
                      !.open = TRUE,
                      !.fieldCount = Len(DistinctDatasets(schema, 1)),
                      !.disk = Append(@, HeaderText(schema))]

\* a variant that creates the file without asking exportEnabled()
WriteFrame_ignoresExport(w, frame, ok, schema) ==
    LET fields == split(frame.data, separatorSequence)
        w1 == IF ~w.open
                 THEN createCsvFile(w, frame, ok, schema) ELSE w
        w2 == Stream(w1, <<RxDateTime(frame.rxDateTime), Comma>>
                             \o FrameText(fields, 1, w1.fieldCount))
    IN  [w2 EXCEPT !.rows = IF w2.open THEN @ + 1 ELSE @]

\* writeValues, the body of the loop for one frame
WriteFrame(w, frame, ok, schema) ==
    LET fields == split(frame.data, separatorSequence)
        w1 == IF ~w.open /\ exportEnabled
                 THEN createCsvFile(w, frame, ok, schema) ELSE w
        w2 == Stream(w1, <<RxDateTime(frame.rxDateTime), Comma>>
                             \o FrameText(fields, 1, w1.fieldCount))
    IN  [w2 EXCEPT !.rows = IF w2.open THEN @ + 1 ELSE @]

\* writeValues, the loop from frame i on; oks[i] is the file system's answer
\* should frame i ask for a file
RECURSIVE WriteFrames(_, _, _, _, _)
WriteFrames(w, frames, i, oks, schema) ==
    IF i > Len(frames) THEN w
    ELSE WriteFrames(WriteFrame(w, frames[i], oks[i], schema), frames, i + 1,
                     oks, schema)

\* a variant of closeFile that does not reset the field count
CloseFile_keepFieldCount(w, frames) ==
    IF w.open
       THEN [w |-> [WriteFrames(w, frames, 1, [i \in 1..Len(frames) |-> TRUE], <<>>)
                       EXCEPT !.open = FALSE],
             frames |-> <<>>]
       ELSE [w |-> w, frames |-> frames]

\* closeFile on writer w with `frames` buffered: the writer and the buffer it
\* leaves (an open file takes the buffered frames, then is closed)
CloseFile(w, frames) ==
    IF w.open
       THEN [w |-> [WriteFrames(w, frames, 1, [i \in 1..Len(frames) |-> TRUE], <<>>)
                       EXCEPT !.fieldCount = 0, !.open = FALSE],
             frames |-> <<>>]
       ELSE [w |-> w, frames |-> frames]

Found == [open |-> isOpen, buffered |-> Len(m_frames)]

Did(op, w) == [op |-> op, found |-> Found, attempts |-> w.attempts,
               alerts |-> w.alerts, rows |-> w.rows]

(* ---------------------------- CSV: handlers ----------------------------- *)

\* a variant that leaves the written frames in the buffer
writeValues_noClear(oks, schema) ==
    LET w == WriteFrames(Writer, m_frames, 1, oks, schema)
    IN  /\ m_csvFile' = [open |-> w.open]
        /\ m_fieldCount' = w.fieldCount
        /\ disk' = w.disk
        /\ csvLast' = Did("writeValues", w)
        /\ UNCHANGED <<netVars, m_exportEnabled, connected, received, m_frames>>

\* the 1 Hz timer
writeValues(oks, schema) ==
    LET w == WriteFrames(Writer, m_frames, 1, oks, schema)
    IN  /\ m_csvFile' = [open |-> w.open]
        /\ m_fieldCount' = w.fieldCount
        /\ disk' = w.disk
        /\ m_frames' = <<>>
        /\ csvLast' = Did("writeValues", w)
        /\ UNCHANGED <<netVars, m_exportEnabled, connected, received>>

\* IO::Manager::connectedChanged is connected to closeFile
closeFile ==
    LET c == CloseFile(Writer, m_frames)
    IN  /\ connected' = ~connected
        /\ m_csvFile' = [open |-> c.w.open]
        /\ m_fieldCount' = c.w.fieldCount
        /\ disk' = c.w.disk
        /\ m_frames' = c.frames
        /\ csvLast' = Did("closeFile", c.w)
        /\ UNCHANGED <<netVars, m_exportEnabled, received>>

\* a variant without m_frames.clear(): closeFile() writes the buffered frames
setExportEnabled_noClear(enabled) ==
    LET c == IF ~enabled /\ isOpen
                THEN CloseFile(Writer, m_frames)
                ELSE [w |-> Writer, frames |-> m_frames]
    IN  /\ m_exportEnabled' = enabled
        /\ m_csvFile' = [open |-> c.w.open]
        /\ m_fieldCount' = c.w.fieldCount
        /\ disk' = c.w.disk
        /\ m_frames' = c.frames
        /\ csvLast' = Did("setExportEnabled", c.w)
        /\ UNCHANGED <<netVars, connected, received>>

setExportEnabled(enabled) ==
    LET c == IF ~enabled /\ isOpen
                THEN CloseFile(Writer, <<>>)
                ELSE [w |-> Writer, frames |-> m_frames]
    IN  /\ m_exportEnabled' = enabled
        /\ m_csvFile' = [open |-> c.w.open]
        /\ m_fieldCount' = c.w.fieldCount
        /\ disk' = c.w.disk
        /\ m_frames' = c.frames
        /\ csvLast' = Did("setExportEnabled", c.w)
        /\ UNCHANGED <<netVars, connected, received>>

\* a variant without the test of IO::Manager::connected()
registerFrame_ignoresConnection(data, frameValid) ==
    /\ IF frameValid /\ exportEnabled
          THEN /\ Len(received) < MaxFrames
               /\ m_frames' = Append(m_frames, [data |-> data,
                                                rxDateTime |-> Len(received) + 1])
               /\ received' = Append(received, data)
          ELSE UNCHANGED <<m_frames, received>>
    /\ csvLast' = Did("registerFrame", Writer)
    /\ UNCHANGED <<netVars, m_fieldCount, m_exportEnabled, m_csvFile, disk,
                   connected>>

\* IO::Manager::frameReceived; `frameValid` is
\* UI::Dashboard::currentFrame().isValid(), and the clock gives the frame the
\* next rxDateTime
registerFrame(data, frameValid) ==
    /\ IF connected /\ frameValid /\ exportEnabled
          THEN /\ Len(received) < MaxFrames
               /\ m_frames' = Append(m_frames, [data |-> data,
                                                rxDateTime |-> Len(received) + 1])
               /\ received' = Append(received, data)
          ELSE UNCHANGED <<m_frames, received>>
    /\ csvLast' = Did("registerFrame", Writer)
    /\ UNCHANGED <<netVars, m_fieldCount, m_exportEnabled, m_csvFile, disk,
                   connected>>

(* --------------------------- specifications ---------------------------- *)

\* Network::Network(): the initialisers, then setRemoteAddress("") (which
\* issues a lookup of the empty name), the default ports and TcpSocket
InitNet ==
    /\ m_address = ""
    /\ m_tcpPort = defaultTcpPort
    /\ m_udpLocalPort = defaultUdpLocalPort
    /\ m_udpRemotePort = defaultUdpRemotePort
    /\ m_socketType = "TcpSocket"
    /\ m_udpMulticast = FALSE
    /\ m_hostExists = FALSE
    /\ m_lookupActive = TRUE
    /\ lookups = [NoLookups EXCEPT ![""] = 1]
    /\ resolved = {}
    /\ m_tcpSocket = TcpIdle
    /\ m_udpSocket = UdpIdle
    /\ managerDisconnects = 0
    /\ alerts = 0
    /\ netLast = [op |-> "Network", arg |-> "", ret |-> "void"]

\* CSV::Export::Export(), with the device not yet connected
InitCsv ==
    /\ m_fieldCount = 0
    /\ m_exportEnabled = TRUE
    /\ m_csvFile = [open |-> FALSE]
    /\ m_frames = <<>>
    /\ disk = <<>>
    /\ connected = FALSE
    /\ received = <<>>
    /\ csvLast = [op |-> "Export", found |-> [open |-> FALSE, buffered |-> 0],
                  attempts |-> 0, alerts |-> 0, rows |-> 0]

Init == InitNet /\ InitCsv

\* configuration and name resolution
NextNet ==
    \/ \E address \in Addresses : setRemoteAddress(address)
    \/ \E port \in PortInputs : setTcpPort(port)
    \/ \E port \in UdpPortInputs : setUdpLocalPort(port)
    \/ \E port \in UdpPortInputs : setUdpRemotePort(port)
    \/ \E enabled \in BOOLEAN : setUdpMulticast(enabled)
    \/ \E type \in SocketTypes : setSocketType(type)
    \/ \E host \in HostNames, noError \in BOOLEAN, count \in 0..1 :
          lookupFinished(host, noError, count)

SpecNet == Init /\ [][NextNet]_vars

\* opening and closing the sockets, under a configuration of literal addresses
\* (or the empty address the constructor leaves)
NextSock ==
    \/ \E address \in LiteralAddresses : setRemoteAddress(address)
    \/ \E port \in PortInputs : setTcpPort(port)
    \/ \E port \in UdpPortInputs : setUdpLocalPort(port)
    \/ \E enabled \in BOOLEAN : setUdpMulticast(enabled)
    \/ \E type \in SocketTypes : setSocketType(type)
    \/ disconnectDevice
    \/ \E bindOk \in BOOLEAN, joinOk \in BOOLEAN : openNetworkPort(bindOk, joinOk)
    \/ tcpConnected
    \/ \E sender \in {"m_tcpSocket", "m_udpSocket"} : onErrorOccurred(sender)

SpecSock == Init /\ [][NextSock]_vars

\* the CSV writer under every event it is connected to
NextCsv ==
    \/ \E data \in Payloads, frameValid \in BOOLEAN : registerFrame(data, frameValid)
    \/ \E oks \in [1..Len(m_frames) -> BOOLEAN], schema \in Schemas :
          writeValues(oks, schema)
    \/ closeFile
    \/ \E enabled \in BOOLEAN : setExportEnabled(enabled)

SpecCsv == Init /\ [][NextCsv]_vars

\* the CSV writer while export stays enabled and every file can be created
NextCsvSteady ==
    \/ \E data \in Payloads, frameValid \in BOOLEAN : registerFrame(data, frameValid)
    \/ \E schema \in Schemas :
          writeValues([i \in 1..Len(m_frames) |-> TRUE], schema)
    \/ closeFile

SpecCsvSteady == Init /\ [][NextCsvSteady]_vars

Next == NextNet \/ NextSock \/ NextCsv

Spec == Init /\ [][Next]_vars

(* --------------------------- Network: claims ---------------------------- *)

\* C2 (as claimed): lookupActive() is true whenever at least one issued lookup
\* has not yet called back.
C2_ActiveWhileOutstanding == Outstanding(lookups) > 0 => lookupActive

\* C3 (as claimed): configurationOk() implies that the stored remote address
\* is a literal IP address or a host name one of whose own lookups completed
\* without error and with at least one address.
C3_OkOnlyIfConfirmed ==
    configurationOk => (m_address \in LiteralAddresses \/ m_address \in resolved)

\* C4: setRemoteAddress of a literal IPv4/IPv6 address leaves host-exists true
\* when it returns and issues no lookup: the outstanding lookups and the
\* lookup-active flag are the same after the call as before it.
C4_LiteralIsSynchronous ==
    [][\A address \in LiteralAddresses :
          setRemoteAddress(address) =>
              /\ m_hostExists'
              /\ lookups' = lookups
              /\ m_lookupActive' = m_lookupActive]_vars

\* a literal address was stored while no lookup was outstanding and the flag
\* was down, and both stayed so
C4_Witness ==
    /\ m_address \in LiteralAddresses
    /\ m_hostExists
    /\ Outstanding(lookups) = 0
    /\ ~m_lookupActive

\* C5: configurationOk() is true exactly when the TCP port is greater than 0
\* and the host-resolved flag is true, whatever the transport kind, the UDP
\* ports and the multicast flag are.
C5_ConfigurationOk ==
    /\ configurationOk <=> (m_tcpPort \in 1..(PortModulus - 1) /\ m_hostExists)
    /\ (m_tcpPort = 0 /\ m_hostExists) => ~configurationOk
    /\ (m_tcpPort = 7777 /\ ~m_hostExists) => ~configurationOk
    /\ (m_tcpPort = 7777 /\ m_hostExists) => configurationOk

\* the configuration is valid under UDP with multicast and a zero local port
C5_Witness ==
    /\ configurationOk
    /\ m_socketType = "UdpSocket"
    /\ m_udpMulticast
    /\ m_udpLocalPort = 0
    /\ m_tcpPort = 7777

\* C7: each socket-error event, from either socket and whether or not that
\* socket is the selected transport's, makes exactly one disconnect call on
\* the device manager and shows exactly one alert, and starts no socket: a
\* socket that is connecting, connected or bound afterwards was so before.
C7_OneDisconnectOneAlert ==
    [][\A sender \in {"m_tcpSocket", "m_udpSocket"} :
          onErrorOccurred(sender) =>
              /\ managerDisconnects' = managerDisconnects + 1
              /\ alerts' = alerts + 1
              /\ m_tcpSocket'.state # "UnconnectedState" => m_tcpSocket' = m_tcpSocket
              /\ m_udpSocket'.state # "UnconnectedState" => m_udpSocket' = m_udpSocket]_vars

\* the TCP socket raised an error while UDP was the selected transport
C7_Witness ==
    /\ netLast.op = "onErrorOccurred"
    /\ netLast.arg = "m_tcpSocket"
    /\ m_socketType = "UdpSocket"
    /\ managerDisconnects = 1
    /\ alerts = 1

\* C10 (as claimed): openNetworkPort returns a null handle exactly when the
\* open fails: the transport kind is neither TCP nor UDP, or the UDP bind or
\* the multicast join fails.
C10_NullOnFailure ==
    netLast.op = "openNetworkPort" =>
        (netLast.ret = "Q_NULLPTR"
            <=> netLast.arg \in {"unknownType", "bindFailed", "joinFailed"})

\* C10 (amended): openNetworkPort leaves the socket that is not selected
\* unconnected, starts the selected one (TCP connect to the configured
\* address, or the default address when that is empty, on the TCP port; UDP
\* bind on the local port, joined to the configured group only when multicast
\* is enabled) and returns its handle, also when the UDP bind or the multicast
\* join fails; it returns a null handle only when the transport kind is
\* neither TCP nor UDP.
C10_OpenReturnsSelected ==
    [][\A bindOk \in BOOLEAN, joinOk \in BOOLEAN :
          openNetworkPort(bindOk, joinOk) =>
              /\ m_socketType = "TcpSocket" =>
                    /\ netLast'.ret = "m_tcpSocket"
                    /\ m_tcpSocket' = [state |-> "ConnectingState",
                                       host |-> IF m_address = "" THEN defaultAddress
                                                ELSE m_address,
                                       port |-> m_tcpPort]
                    /\ m_udpSocket'.state = "UnconnectedState"
              /\ m_socketType = "UdpSocket" =>
                    /\ netLast'.ret = "m_udpSocket"
                    /\ m_tcpSocket'.state = "UnconnectedState"
                    /\ m_udpSocket'.state = (IF bindOk THEN "BoundState"
                                                       ELSE "UnconnectedState")
                    /\ bindOk => m_udpSocket'.port = m_udpLocalPort
                    /\ m_udpSocket'.group # "none" =>
                          m_udpMulticast /\ m_udpSocket'.group = m_address
              /\ m_socketType \notin {"TcpSocket", "UdpSocket"} =>
                    /\ netLast'.ret = "Q_NULLPTR"
                    /\ m_tcpSocket'.state = "UnconnectedState"
                    /\ m_udpSocket'.state = "UnconnectedState"]_vars

\* an open under UDP whose bind failed handed back the UDP socket
C10_Witness ==
    /\ netLast.op = "openNetworkPort"
    /\ netLast.arg = "bindFailed"
    /\ netLast.ret = "m_udpSocket"
    /\ m_udpSocket.state = "UnconnectedState"

\* C11 (as claimed): when the callback of a lookup of the currently stored host
\* name reports an error or an empty address list, the lookup-active flag
\* becomes false, the host-resolved flag is false afterwards (so
\* configurationOk() is false), no alert is shown and no lookup is issued.
C11_FailureLeavesUnresolved ==
    [][\A host \in HostNames, noError \in BOOLEAN :
          (host = m_address /\ lookupFinished(host, noError, 0)) =>
              /\ ~m_lookupActive'
              /\ ~m_hostExists'
              /\ ~configurationOk'
              /\ alerts' = alerts
              /\ \A h \in HostNames : lookups'[h] <= lookups[h]]_vars

\* C13: both sockets stay unconnected until openNetworkPort is called, and
\* disconnectDevice called while they are (so before any open) changes
\* nothing: the address, the ports, the transport kind, the multicast flag
\* and the lookup state are as before, both sockets are still unconnected and
\* can raise no error, no alert is shown and the device manager is not asked
\* to disconnect; a second call leaves everything as the first left it.
C13_DisconnectBeforeOpenIsNoOp ==
    [][/\ (/\ m_tcpSocket = TcpIdle
           /\ m_udpSocket = UdpIdle
           /\ ~(\E bindOk \in BOOLEAN, joinOk \in BOOLEAN :
                    openNetworkPort(bindOk, joinOk))) =>
              (m_tcpSocket' = TcpIdle /\ m_udpSocket' = UdpIdle)
       /\ (disconnectDevice /\ m_tcpSocket = TcpIdle /\ m_udpSocket = UdpIdle) =>
              /\ UNCHANGED <<m_address, m_tcpPort, m_udpLocalPort, m_udpRemotePort,
                             m_socketType, m_udpMulticast, m_hostExists,
                             m_lookupActive, lookups, resolved, m_tcpSocket,
                             m_udpSocket, managerDisconnects, alerts, csvVars>>
              /\ ActiveSockets' = {}
       /\ (disconnectDevice /\ netLast.op = "disconnectDevice") =>
              UNCHANGED vars]_vars

\* disconnectDevice was called on a new object configured for UDP multicast:
\* nothing was ever opened, and nothing was reported
C13_Witness ==
    /\ netLast.op = "disconnectDevice"
    /\ m_socketType = "UdpSocket"
    /\ m_udpMulticast
    /\ m_tcpPort = 7777
    /\ m_tcpSocket = TcpIdle
    /\ m_udpSocket = UdpIdle
    /\ managerDisconnects = 0
    /\ alerts = 0

\* C17 (as claimed): the alert of a socket-error event shows the error of the
\* socket that raised the event (its error string, or the number of the error
\* it signalled), whichever transport kind is selected.
C17_AlertShowsSendersError ==
    netLast.op = "onErrorOccurred" =>
        netLast.ret \in {IF netLast.arg = "m_tcpSocket"
                            THEN "m_tcpSocket.errorString"
                            ELSE "m_udpSocket.errorString",
                         "QString::number(socketError)"}

\* C20: at most one of the two sockets is connecting, connected or bound at
\* any time.  A socket that is so is the one whose handle the last
\* openNetworkPort returned: an open leaves no other socket in use, also when
\* the transport kind was changed since the open before, and no other
\* operation (a change of the transport kind, disconnectDevice, a socket
\* error) puts a socket into use.
C20_OnlyTheOpenedSocketIsActive ==
    [][/\ Cardinality(ActiveSockets') <= 1
       /\ netLast'.op = "openNetworkPort" => ActiveSockets' \subseteq {netLast'.ret}
       /\ \A bindOk \in BOOLEAN, joinOk \in BOOLEAN :
              openNetworkPort(bindOk, joinOk) =>
                  ActiveSockets' \subseteq {netLast'.ret}
       /\ ~(\E bindOk \in BOOLEAN, joinOk \in BOOLEAN :
                openNetworkPort(bindOk, joinOk)) =>
              ActiveSockets' \subseteq ActiveSockets]_vars

\* the transport kind was changed to UDP after an open under TCP: the TCP
\* socket, which that open returned, is the only one in use
C20_Witness ==
    /\ netLast.op = "openNetworkPort"
    /\ netLast.ret = "m_tcpSocket"
    /\ m_socketType = "UdpSocket"
    /\ ActiveSockets = {"m_tcpSocket"}

(* ----------------------------- CSV: claims ------------------------------ *)

\* the places of the rxDateTime columns in the text of a file: each starts a row
RowStarts(f) == {p \in 1..Len(f) : f[p].k = "rxDateTime"}

\* the place after the row that starts at p: that of its newline, or the end
\* of the text when no newline follows
RowEnd(f, p) == Min({q \in p..Len(f) : f[q].k = "newline"} \cup {Len(f) + 1})

\* the data columns of the row at p: one after each comma of the row
DataColumns(f, p) == Cardinality({q \in p..(RowEnd(f, p) - 1) : f[q].k = ","})

\* the columns the header of the file declares after RX Date/Time
HeaderColumns(f) == Cardinality({q \in 1..Len(f) : f[q].k = "title"})

\* the fields of the frame registered at time t
FieldsOf(t) == split(received[t], separatorSequence)

\* the rxDateTimes in a text, in order
RECURSIVE TimesIn(_)
TimesIn(f) ==
    IF f = <<>> THEN <<>>
    ELSE (IF Head(f).k = "rxDateTime" THEN <<Head(f).t>> ELSE <<>>) \o TimesIn(Tail(f))

\* the characters in a text, in order
RECURSIVE CharsIn(_)
CharsIn(f) ==
    IF f = <<>> THEN <<>>
    ELSE (IF Head(f).k = "char" THEN <<Head(f).c>> ELSE <<>>) \o CharsIn(Tail(f))

RECURSIVE Flatten(_)
Flatten(ss) == IF ss = <<>> THEN <<>> ELSE Head(ss) \o Flatten(Tail(ss))

\* C1 (as claimed): in a file with field count F, the row of a frame whose
\* payload splits into n fields, 1 <= n < F, has exactly F data columns after
\* the timestamp column.
C1_PaddedToFieldCount ==
    \A i \in 1..Len(disk) : \A p \in RowStarts(disk[i]) :
        LET n == Len(FieldsOf(disk[i][p].t))
            F == HeaderColumns(disk[i])
        IN  (1 <= n /\ n < F) => DataColumns(disk[i], p) = F

\* C6: setExportEnabled(false) with the file open writes no row (the files are
\* as they were), and leaves the buffer empty, the file closed and the field
\* count 0.
C6_DisableDropsBuffer ==
    [][(setExportEnabled(FALSE) /\ isOpen) =>
          /\ disk' = disk
          /\ m_frames' = <<>>
          /\ m_csvFile'.open = FALSE
          /\ m_fieldCount' = 0]_vars

\* export was disabled while the file was open and a frame was buffered
C6_Witness ==
    /\ csvLast.op = "setExportEnabled"
    /\ csvLast.found.open
    /\ csvLast.found.buffered >= 1
    /\ ~m_exportEnabled
    /\ ~isOpen
    /\ m_frames = <<>>

C9_OneAlertThenAbort ==
    (csvLast.op = "writeValues" /\ ~csvLast.found.open /\ csvLast.alerts >= 1) =>
        (csvLast.alerts = 1 /\ csvLast.attempts = 1 /\ csvLast.rows = 0)

\* C12: the field count is set when a file is created, to the number of
\* columns in that file's header, and does not change while that file stays
\* open, whatever frames are registered, flushes happen and schemas the
\* dashboard has; it changes back to 0 only by the file being closed, and is 0
\* whenever no file is open.
C12_FieldCountFixedWhileOpen ==
    [][/\ (isOpen /\ isOpen' /\ Len(disk') = Len(disk)) =>
              m_fieldCount' = m_fieldCount
       /\ m_fieldCount' # m_fieldCount =>
              \/ ~isOpen /\ isOpen' /\ Len(disk') = Len(disk) + 1
              \/ isOpen /\ ~isOpen' /\ m_fieldCount' = 0
       /\ isOpen' => m_fieldCount' = HeaderColumns(disk'[Len(disk')])
       /\ ~isOpen' => m_fieldCount' = 0]_vars

\* a file with two columns was open when a flush wrote a one-field frame to
\* it, and the field count is still two
C12_Witness ==
    /\ csvLast.op = "writeValues"
    /\ csvLast.found = [open |-> TRUE, buffered |-> 1]
    /\ csvLast.rows = 1
    /\ isOpen
    /\ m_fieldCount = 2
    /\ Len(received) = 2
    /\ received[2] = <<"x">>

\* C14 (as claimed): createCsvFile is entered only while the device manager
\* reports a connected device: a handler that tried to create a file ran
\* while connected (writeValues, the only caller, leaves the connection as it
\* is).
C14_CreatedOnlyWhileConnected == csvLast.attempts >= 1 => connected

\* C15 (as claimed): when closeFile returns from a connectivity-change
\* notification, no file is open and the frame buffer is empty, whether or not
\* a file was open and however many frames were buffered; an open file took
\* one row for every buffered frame before it was closed.
C15_CloseDrainsAndCloses ==
    csvLast.op = "closeFile" =>
        /\ ~isOpen
        /\ m_frames = <<>>
        /\ csvLast.found.open => csvLast.rows = csvLast.found.buffered

\* C16 (as claimed): a file that writeValues creates starts with one complete
\* header row, ended by a newline: `RX Date/Time`, then one title column per
\* distinct dataset index of the schema, numbered from 1 in schema order, and
\* nothing of a data row; every data row starts right after a newline.  This
\* is claimed for every schema, the one without datasets included.
C16_HeaderRowComplete ==
    [][\A oks \in [1..Len(m_frames) -> BOOLEAN], schema \in Schemas :
          (writeValues(oks, schema) /\ Len(disk') = Len(disk) + 1) =>
              LET f == disk'[Len(disk')]
                  e == RowEnd(f, 1)
                  titles == DistinctDatasets(schema, 1)
              IN  /\ e <= Len(f)
                  /\ f[1] = RxDateTimeTitle
                  /\ \A q \in 1..(e - 1) : f[q].k \in {"RX Date/Time", ",", "title"}
                  /\ SelectSeq(SubSeq(f, 1, e - 1), LAMBDA t : t.k = "title")
                         = [n \in 1..Len(titles) |-> Title(titles[n], n)]
                  /\ \A p \in RowStarts(f) : p > 1 /\ f[p - 1] = Newline]_vars

\* C18: registerFrame appends the frame, stamped with its arrival time, to the
\* end of the buffer when the device is connected, the dashboard frame is
\* valid and export is enabled, and leaves the buffer as it is otherwise; in
\* both cases the file, its open state and the field count are unchanged.
C18_RegisterFrameOnlyAppends ==
    [][\A data \in Payloads, frameValid \in BOOLEAN :
          registerFrame(data, frameValid) =>
              /\ m_frames' = (IF connected /\ frameValid /\ m_exportEnabled
                                 THEN Append(m_frames,
                                             [data |-> data,
                                              rxDateTime |-> Len(received) + 1])
                                 ELSE m_frames)
              /\ isOpen' = isOpen
              /\ m_fieldCount' = m_fieldCount
              /\ disk' = disk]_vars

\* a frame arrived while connected but with export disabled: the one frame
\* buffered before is still the whole buffer
C18_Witness ==
    /\ csvLast.op = "registerFrame"
    /\ csvLast.found.buffered = 1
    /\ Len(m_frames) = 1
    /\ connected
    /\ ~m_exportEnabled

\* C19: after every handler, export disabled implies that no file is open; a
\* handler creates a file only while export is enabled, and the call that
\* disables export leaves no file open.
C19_NoFileWhileDisabled ==
    [][/\ ~m_exportEnabled' => ~isOpen'
       /\ Len(disk') > Len(disk) => (m_exportEnabled /\ m_exportEnabled')
       /\ csvLast'.attempts >= 1 => m_exportEnabled'
       /\ setExportEnabled(FALSE) => ~isOpen']_vars

\* a tick found a frame buffered with export disabled and no file open: it
\* created no file
C19_Witness ==
    /\ csvLast.op = "writeValues"
    /\ csvLast.found = [open |-> FALSE, buffered |-> 1]
    /\ csvLast.attempts = 0
    /\ ~m_exportEnabled
    /\ ~isOpen
    /\ disk = <<>>

====
